---- MODULE Spec2Model ----
(***************************************************************************)
(* Alert dispatch pipeline of alertbot.py: the /alert webhook handler, the *)
(* OIDC token provider with its Redis cache entry 'oidc_token', and the    *)
(* SMS sender.  Several worker processes share the one Redis entry; each   *)
(* worker serves one inbound request.  Every external call (Redis get,     *)
(* identity-provider post, Redis set, SMS gateway post) is one step.       *)
(***************************************************************************)
EXTENDS Integers, Sequences, FiniteSets, TLC

\* ------------------------------------------------------------------ bounds
\* alerts in the inbound requests of all workers together
MaxAlerts == 2
\* number of distinct access tokens the identity provider issues
MaxTokens == 3
\* seconds that pass in one step of the clock
TickSeconds == 60

\* ------------------------------------------------------- program constants
\* expires_in = 120
expires_in == 120
\* status codes: requests' success code, HTTPException(status_code=500)
HTTP_OK == 200
HTTP_ERROR == 500

\* worker processes sharing the Redis store
Procs == {"w1", "w2"}

\* Python's None (also the result of dict.get on an absent key)
None == "<None>"
\* a local name that has not been assigned yet
Unbound == "<unbound>"
UnboundMember == [phone |-> Unbound]
\* access tokens are the numbers 1, 2, ... in the order the identity provider
\* issues them; no token (None, or an unassigned local) is the number 0
NoToken == 0
\* the Redis key 'oidc_token' does not exist
NoEntry == [token |-> NoToken, ttl |-> 0]

\* contents of contacts.json the service may be started with
Directories ==
    { [devops |-> << [phone |-> "+1000"], [phone |-> "+2000"] >>,
       sre    |-> << [phone |-> "+3000"] >>],
      [devops |-> << >>,
       sre    |-> << [phone |-> "+3000"] >>],
      [sre    |-> << [phone |-> "+3000"] >>] }

\* elements of the inbound 'alerts' list: JSON objects (team and description
\* are None when the key is absent) and an element that is not an object
AlertInputs ==
    { [kind |-> "object", team |-> "sre",   description |-> "disk full"],
      [kind |-> "object", team |-> None,    description |-> None],
      [kind |-> "object", team |-> "",      description |-> "cpu high"],
      [kind |-> "object", team |-> "ghost", description |-> "cpu high"],
      [kind |-> "string", team |-> None,    description |-> None] }

RECURSIVE SeqsUpTo(_, _)
SeqsUpTo(S, n) ==
    IF n = 0 THEN { << >> }
    ELSE LET shorter == SeqsUpTo(S, n - 1)
         IN  shorter \cup { Append(s, x) : s \in shorter, x \in S }

\* inbound request bodies: a JSON object with an 'alerts' list, or a body
\* that is not JSON
Bodies ==
    { [json |-> TRUE, alerts |-> s] : s \in SeqsUpTo(AlertInputs, MaxAlerts) }
        \cup { [json |-> FALSE, alerts |-> << >>] }

VARIABLES
    contacts,     \* the loaded contact directory
    cache,        \* the Redis entry 'oidc_token': its value and seconds to live
    issued,       \* number of access tokens the identity provider has issued
    pc,           \* per worker: where the handler stands
    data,         \* per worker: the request body
    pos,          \* per worker: index of the alert the for loop is at
    message,      \* per worker: local 'message'
    team,         \* per worker: local 'team'
    token,        \* per worker: local 'token' of get_oidc_token
    oidc_token,   \* per worker: local 'oidc_token'
    member,       \* per worker: local 'member'
    k,            \* per worker: position of the inner for loop's iterator
    log,          \* per worker: the external calls made, in order
    resp          \* per worker: the HTTP response of the request

vars == << contacts, cache, issued, pc, data, pos, message, team, token,
           oidc_token, member, k, log, resp >>

alerts(h) == data[h].alerts

NoResponse == [status |-> 0, body |-> None]
Processed == [status |-> HTTP_OK, body |-> "Alerts processed"]
\* HTTPException(status_code=500, detail=d) and any uncaught exception
HTTPException(d) == [status |-> HTTP_ERROR, body |-> d]
InternalServerError == [status |-> HTTP_ERROR, body |-> "Internal Server Error"]

\* one entry of the call log
Event(op, a, phone, body, tok, ok) ==
    [op |-> op, alert |-> a, phone |-> phone, body |-> body, token |-> tok, ok |-> ok]

Init ==
    /\ contacts \in Directories
    /\ cache = NoEntry
    /\ issued = 0
    /\ pc = [h \in Procs |-> "idle"]
    /\ data = [h \in Procs |-> [json |-> TRUE, alerts |-> << >>]]
    /\ pos = [h \in Procs |-> 0]
    /\ message = [h \in Procs |-> Unbound]
    /\ team = [h \in Procs |-> Unbound]
    /\ token = [h \in Procs |-> NoToken]
    /\ oidc_token = [h \in Procs |-> NoToken]
    /\ member = [h \in Procs |-> UnboundMember]
    /\ k = [h \in Procs |-> 0]
    /\ log = [h \in Procs |-> << >>]
    /\ resp = [h \in Procs |-> NoResponse]

\* the request ends with response r
Respond(h, r) ==
    /\ pc' = [pc EXCEPT ![h] = "done"]
    /\ resp' = [resp EXCEPT ![h] = r]

RECURSIVE SumLen(_)
SumLen(W) ==
    IF W = {} THEN 0
    ELSE LET w == CHOOSE x \in W : TRUE IN Len(alerts(w)) + SumLen(W \ {w})

\* alerts received so far by all workers
Received == SumLen(Procs)

\* data = await request.json(); alerts = data.get('alerts', [])
Receive(h) ==
    /\ pc[h] = "idle"
    /\ \E b \in Bodies :
        /\ Received + Len(b.alerts) <= MaxAlerts
        /\ data' = [data EXCEPT ![h] = b]
        /\ IF b.json
             THEN /\ pc' = [pc EXCEPT ![h] = "for_alert"]
                  /\ resp' = resp
             ELSE Respond(h, InternalServerError)
    /\ UNCHANGED << contacts, cache, issued, pos, message, team, token,
                    oidc_token, member, k, log >>

\* ForAlert that builds the message for the first alert only and keeps it
\* for the alerts that follow
ForAlert_MessageOnce(h) ==
    /\ pc[h] = "for_alert"
    /\ IF pos[h] >= Len(alerts(h))
         THEN /\ Respond(h, Processed)
              /\ UNCHANGED << pos, message, team >>
         ELSE LET alert == alerts(h)[pos[h] + 1] IN
              /\ pos' = [pos EXCEPT ![h] = pos[h] + 1]
              /\ IF alert.kind # "object"
                   THEN /\ Respond(h, InternalServerError)
                        /\ UNCHANGED << message, team >>
                   ELSE /\ message' = [message EXCEPT ![h] =
                              IF @ # Unbound THEN @
                              ELSE "Alert: " \o (IF alert.description = None
                                                   THEN "No description provided"
                                                   ELSE alert.description)]
                        /\ team' = [team EXCEPT ![h] = alert.team]
                        /\ pc' = [pc EXCEPT ![h] = "get_oidc_token"]
                        /\ resp' = resp
    /\ UNCHANGED << contacts, cache, issued, data, token, oidc_token, member, k, log >>

\* for alert in alerts: message = ...; team = ...   (falls out of the loop
\* to 'return {"status": "Alerts processed"}' when the list is exhausted)
ForAlert(h) ==
    /\ pc[h] = "for_alert"
    /\ IF pos[h] >= Len(alerts(h))
         THEN /\ Respond(h, Processed)
              /\ UNCHANGED << pos, message, team >>
         ELSE LET alert == alerts(h)[pos[h] + 1] IN
              /\ pos' = [pos EXCEPT ![h] = pos[h] + 1]
              /\ IF alert.kind # "object"
                   THEN \* alert.get raises AttributeError
                        /\ Respond(h, InternalServerError)
                        /\ UNCHANGED << message, team >>
                   ELSE /\ message' = [message EXCEPT ![h] =
                              "Alert: " \o (IF alert.description = None
                                              THEN "No description provided"
                                              ELSE alert.description)]
                        /\ team' = [team EXCEPT ![h] = alert.team]
                        /\ pc' = [pc EXCEPT ![h] = "get_oidc_token"]
                        /\ resp' = resp
    /\ UNCHANGED << contacts, cache, issued, data, token, oidc_token, member, k, log >>

\* CacheGet without the fast path: a cached token is read and the exchange
\* is performed all the same
CacheGet_NoFastPath(h) ==
    /\ pc[h] = "get_oidc_token"
    /\ log' = [log EXCEPT ![h] =
                 Append(@, Event("cache_get", pos[h], None, None, cache.token,
                                 cache # NoEntry))]
    /\ oidc_token' = oidc_token
    /\ pc' = [pc EXCEPT ![h] = "post"]
    /\ UNCHANGED << contacts, cache, issued, data, pos, message, team, token,
                    member, k, resp >>

\* CacheGet that returns the empty read on a miss instead of asking the
\* identity provider
CacheGet_MissSkipsExchange(h) ==
    /\ pc[h] = "get_oidc_token"
    /\ log' = [log EXCEPT ![h] =
                 Append(@, Event("cache_get", pos[h], None, None, cache.token,
                                 cache # NoEntry))]
    /\ oidc_token' = [oidc_token EXCEPT ![h] = cache.token]
    /\ pc' = [pc EXCEPT ![h] = "resolve"]
    /\ UNCHANGED << contacts, cache, issued, data, pos, message, team, token,
                    member, k, resp >>

\* CacheGet with a sliding expiry: a hit renews the entry's time to live
CacheGet_RefreshesExpiry(h) ==
    /\ pc[h] = "get_oidc_token"
    /\ log' = [log EXCEPT ![h] =
                 Append(@, Event("cache_get", pos[h], None, None, cache.token,
                                 cache # NoEntry))]
    /\ IF cache # NoEntry
         THEN /\ oidc_token' = [oidc_token EXCEPT ![h] = cache.token]
              /\ cache' = [cache EXCEPT !.ttl = expires_in]
              /\ pc' = [pc EXCEPT ![h] = "resolve"]
         ELSE /\ oidc_token' = oidc_token
              /\ cache' = cache
              /\ pc' = [pc EXCEPT ![h] = "post"]
    /\ UNCHANGED << contacts, issued, data, pos, message, team, token,
                    member, k, resp >>

\* token = redis_client.get('oidc_token'); if token: return token.decode('utf-8')
CacheGet(h) ==
    /\ pc[h] = "get_oidc_token"
    /\ log' = [log EXCEPT ![h] =
                 Append(@, Event("cache_get", pos[h], None, None, cache.token,
                                 cache # NoEntry))]
    /\ IF cache # NoEntry
         THEN /\ oidc_token' = [oidc_token EXCEPT ![h] = cache.token]
              /\ pc' = [pc EXCEPT ![h] = "resolve"]
         ELSE /\ oidc_token' = oidc_token
              /\ pc' = [pc EXCEPT ![h] = "post"]
    /\ UNCHANGED << contacts, cache, issued, data, pos, message, team, token,
                    member, k, resp >>

\* Exchange without the status check: a rejected exchange is logged and the
\* handler goes on with no token
Exchange_IgnoresStatus(h) ==
    /\ pc[h] = "post"
    /\ \/ /\ issued < MaxTokens
          /\ issued' = issued + 1
          /\ token' = [token EXCEPT ![h] = issued + 1]
          /\ log' = [log EXCEPT ![h] =
                       Append(@, Event("token_post", pos[h], None, None, issued + 1, TRUE))]
       \/ /\ log' = [log EXCEPT ![h] =
                       Append(@, Event("token_post", pos[h], None, None, NoToken, FALSE))]
          /\ token' = [token EXCEPT ![h] = NoToken]
          /\ issued' = issued
    /\ pc' = [pc EXCEPT ![h] = "set"]
    /\ UNCHANGED << contacts, cache, data, pos, message, team, oidc_token, member,
                    k, resp >>

\* Exchange wrapped in a retry loop: a rejected exchange is tried again
Exchange_Retries(h) ==
    /\ pc[h] = "post"
    /\ \/ /\ issued < MaxTokens
          /\ issued' = issued + 1
          /\ token' = [token EXCEPT ![h] = issued + 1]
          /\ log' = [log EXCEPT ![h] =
                       Append(@, Event("token_post", pos[h], None, None, issued + 1, TRUE))]
          /\ pc' = [pc EXCEPT ![h] = "set"]
       \/ /\ log' = [log EXCEPT ![h] =
                       Append(@, Event("token_post", pos[h], None, None, NoToken, FALSE))]
          /\ UNCHANGED << issued, token, pc >>
    /\ UNCHANGED << contacts, cache, data, pos, message, team, oidc_token, member,
                    k, resp >>

\* Exchange that stores the response's (absent) token in the cache before
\* looking at the status code
Exchange_CachesOnFailure(h) ==
    /\ pc[h] = "post"
    /\ \/ /\ issued < MaxTokens
          /\ issued' = issued + 1
          /\ token' = [token EXCEPT ![h] = issued + 1]
          /\ log' = [log EXCEPT ![h] =
                       Append(@, Event("token_post", pos[h], None, None, issued + 1, TRUE))]
          /\ pc' = [pc EXCEPT ![h] = "set"]
          /\ UNCHANGED << resp, cache >>
       \/ /\ log' = [log EXCEPT ![h] =
                       Append(@, Event("token_post", pos[h], None, None, NoToken, FALSE))]
          /\ cache' = [token |-> NoToken, ttl |-> expires_in]
          /\ Respond(h, HTTPException("Failed to obtain OIDC token"))
          /\ UNCHANGED << issued, token >>
    /\ UNCHANGED << contacts, data, pos, message, team, oidc_token, member, k >>

\* response = requests.post(KEYCLOAK_URL ...); a status other than 200 raises
\* HTTPException; otherwise token = response.json()['access_token']
Exchange(h) ==
    /\ pc[h] = "post"
    /\ \/ /\ issued < MaxTokens
          /\ issued' = issued + 1
          /\ token' = [token EXCEPT ![h] = issued + 1]
          /\ log' = [log EXCEPT ![h] =
                       Append(@, Event("token_post", pos[h], None, None, issued + 1, TRUE))]
          /\ pc' = [pc EXCEPT ![h] = "set"]
          /\ resp' = resp
       \/ /\ log' = [log EXCEPT ![h] =
                       Append(@, Event("token_post", pos[h], None, None, NoToken, FALSE))]
          /\ Respond(h, HTTPException("Failed to obtain OIDC token"))
          /\ UNCHANGED << issued, token >>
    /\ UNCHANGED << contacts, cache, data, pos, message, team, oidc_token, member, k >>

\* CacheSet that stores the caller's previous token variable instead of the
\* token just issued
CacheSet_StoresStale(h) ==
    /\ pc[h] = "set"
    /\ cache' = [token |-> oidc_token[h], ttl |-> expires_in]
    /\ oidc_token' = [oidc_token EXCEPT ![h] = token[h]]
    /\ pc' = [pc EXCEPT ![h] = "resolve"]
    /\ UNCHANGED << contacts, issued, data, pos, message, team, token, member,
                    k, log, resp >>

\* redis_client.set('oidc_token', token, ex=expires_in); return token
CacheSet(h) ==
    /\ pc[h] = "set"
    /\ cache' = [token |-> token[h], ttl |-> expires_in]
    /\ oidc_token' = [oidc_token EXCEPT ![h] = token[h]]
    /\ pc' = [pc EXCEPT ![h] = "resolve"]
    /\ UNCHANGED << contacts, issued, data, pos, message, team, token, member,
                    k, log, resp >>

\* Python truth value of the team label
Falsy(t) == t = None \/ t = ""

\* Resolve that takes the first member off the default team's list while
\* resolving it (a destructive read of the directory)
Resolve_ConsumesList(h) ==
    /\ pc[h] = "resolve"
    /\ IF Falsy(team[h]) \/ team[h] \notin DOMAIN contacts
         THEN /\ team' = [team EXCEPT ![h] = "devops"]
              /\ IF "devops" \in DOMAIN contacts
                   THEN /\ k' = [k EXCEPT ![h] = 0]
                        /\ pc' = [pc EXCEPT ![h] = "for_member"]
                        /\ resp' = resp
                        /\ contacts' = [contacts EXCEPT !["devops"] =
                                          IF @ = << >> THEN @ ELSE Tail(@)]
                   ELSE /\ Respond(h, InternalServerError)
                        /\ UNCHANGED << k, contacts >>
         ELSE /\ pc' = [pc EXCEPT ![h] = "for_alert"]
              /\ UNCHANGED << team, k, resp, contacts >>
    /\ UNCHANGED << cache, issued, data, pos, message, token,
                    oidc_token, member, log >>

\* if not team or team not in contacts: team = 'devops';
\*     for member in contacts[team]:   (the iterator is created here)
Resolve(h) ==
    /\ pc[h] = "resolve"
    /\ IF Falsy(team[h]) \/ team[h] \notin DOMAIN contacts
         THEN /\ team' = [team EXCEPT ![h] = "devops"]
              /\ IF "devops" \in DOMAIN contacts
                   THEN /\ k' = [k EXCEPT ![h] = 0]
                        /\ pc' = [pc EXCEPT ![h] = "for_member"]
                        /\ resp' = resp
                   ELSE \* contacts['devops'] raises KeyError
                        /\ Respond(h, InternalServerError)
                        /\ k' = k
         ELSE \* the if body is skipped: next alert
              /\ pc' = [pc EXCEPT ![h] = "for_alert"]
              /\ UNCHANGED << team, k, resp >>
    /\ UNCHANGED << contacts, cache, issued, data, pos, message, token,
                    oidc_token, member, log >>

\* send_sms that reads the token from the cache at the time of each send
\* instead of taking the caller's oidc_token
send_sms_ReadsCache(h, phone, next) ==
    \E ok \in BOOLEAN :
        /\ log' = [log EXCEPT ![h] =
                     Append(@, Event("send_sms", pos[h], phone, message[h],
                                     cache.token, ok))]
        /\ IF ok
             THEN /\ pc' = [pc EXCEPT ![h] = next]
                  /\ resp' = resp
             ELSE Respond(h, HTTPException("Failed to send SMS"))

\* send_sms(phone, message, oidc_token): the gateway answers 200 or not;
\* a status other than 200 raises HTTPException, which nothing catches
send_sms(h, phone, next) ==
    \E ok \in BOOLEAN :
        /\ log' = [log EXCEPT ![h] =
                     Append(@, Event("send_sms", pos[h], phone, message[h],
                                     oidc_token[h], ok))]
        /\ IF ok
             THEN /\ pc' = [pc EXCEPT ![h] = next]
                  /\ resp' = resp
             ELSE Respond(h, HTTPException("Failed to send SMS"))

\* ForMember that walks the member list from its end
ForMember_Reversed(h) ==
    /\ pc[h] = "for_member"
    /\ IF k[h] >= Len(contacts[team[h]])
         THEN /\ pc' = [pc EXCEPT ![h] = "tail_send"]
              /\ UNCHANGED << member, k, log, resp >>
         ELSE LET m == contacts[team[h]][Len(contacts[team[h]]) - k[h]] IN
              /\ member' = [member EXCEPT ![h] = m]
              /\ k' = [k EXCEPT ![h] = k[h] + 1]
              /\ send_sms(h, m.phone, "for_member")
    /\ UNCHANGED << contacts, cache, issued, data, pos, message, team, token,
                    oidc_token >>

\* for member in contacts[team]: send_sms(member['phone'], message, oidc_token)
ForMember(h) ==
    /\ pc[h] = "for_member"
    /\ IF k[h] >= Len(contacts[team[h]])
         THEN /\ pc' = [pc EXCEPT ![h] = "tail_send"]
              /\ UNCHANGED << member, k, log, resp >>
         ELSE LET m == contacts[team[h]][k[h] + 1] IN
              /\ member' = [member EXCEPT ![h] = m]
              /\ k' = [k EXCEPT ![h] = k[h] + 1]
              /\ send_sms(h, m.phone, "for_member")
    /\ UNCHANGED << contacts, cache, issued, data, pos, message, team, token,
                    oidc_token >>

\* the send_sms after the inner loop, still inside the if: it uses whatever
\* 'member' holds; an unassigned 'member' raises UnboundLocalError
TailSend(h) ==
    /\ pc[h] = "tail_send"
    /\ IF member[h] = UnboundMember
         THEN /\ Respond(h, InternalServerError)
              /\ log' = log
         ELSE send_sms(h, member[h].phone, "for_alert")
    /\ UNCHANGED << contacts, cache, issued, data, pos, message, team, token,
                    oidc_token, member, k >>

\* time passes: Redis drops the entry once its time to live is used up
Tick ==
    /\ cache # NoEntry
    /\ cache' = IF cache.ttl - TickSeconds <= 0
                  THEN NoEntry
                  ELSE [cache EXCEPT !.ttl = @ - TickSeconds]
    /\ UNCHANGED << contacts, issued, pc, data, pos, message, team, token,
                    oidc_token, member, k, log, resp >>

Next ==
    \/ \E h \in Procs : Receive(h)
    \/ \E h \in Procs : ForAlert(h)
    \/ \E h \in Procs : CacheGet(h)
    \/ \E h \in Procs : Exchange(h)
    \/ \E h \in Procs : CacheSet(h)
    \/ \E h \in Procs : Resolve(h)
    \/ \E h \in Procs : ForMember(h)
    \/ \E h \in Procs : TailSend(h)
    \/ Tick

Spec == Init /\ [][Next]_vars

\* An external service that never answers.  requests.post is called without
\* a timeout and redis.Redis is built without socket_timeout, so the call
\* the worker stands at never returns and the worker stays in it.
Hang(h) ==
    /\ \/ pc[h] \in {"get_oidc_token", "post", "set"}
       \/ pc[h] = "for_member" /\ k[h] < Len(contacts[team[h]])
       \/ pc[h] = "tail_send" /\ member[h] # UnboundMember
    /\ pc' = [pc EXCEPT ![h] = "blocked"]
    /\ UNCHANGED << contacts, cache, issued, data, pos, message, team, token,
                    oidc_token, member, k, log, resp >>

\* the steps of worker h's own code
Step(h) ==
    \/ Receive(h)
    \/ ForAlert(h)
    \/ CacheGet(h)
    \/ Exchange(h)
    \/ CacheSet(h)
    \/ Resolve(h)
    \/ ForMember(h)
    \/ TailSend(h)

NextHang ==
    \/ \E h \in Procs : Step(h)
    \/ \E h \in Procs : Hang(h)
    \/ Tick

\* The services may fail to answer; every worker keeps running its code
\* whenever it has a step to take.
SpecHang == Init /\ [][NextHang]_vars /\ \A h \in Procs : WF_vars(Step(h))

\* ------------------------------------------------------------ vocabulary
\* the calls of kind op made for alert a of worker h, in order
Events(h, a, op) == SelectSeq(log[h], LAMBDA e : e.op = op /\ e.alert = a)

\* number of identity-provider exchanges made for alert a of worker h
NPosts(h, a) == Len(Events(h, a, "token_post"))

\* the phones alert a of worker h was sent to, in order
SentPhones(h, a) ==
    LET s == Events(h, a, "send_sms") IN [j \in DOMAIN s |-> s[j].phone]

Count(seq, x) == Cardinality({ j \in DOMAIN seq : seq[j] = x })

\* the alerts a worker has started
Dispatches == { d \in Procs \X (1 .. MaxAlerts + 1) : d[2] <= pos[d[1]] }

\* the cache read of dispatch d found a token / found none
Hit(d) == \E e \in { log[d[1]][n] : n \in DOMAIN log[d[1]] } :
              e.op = "cache_get" /\ e.alert = d[2] /\ e.ok
Miss(d) == \E e \in { log[d[1]][n] : n \in DOMAIN log[d[1]] } :
              e.op = "cache_get" /\ e.alert = d[2] /\ ~e.ok

\* the loop body of alert a of worker h ran to its end without an exception
Completed(h, a) ==
    \/ a < pos[h]
    \/ a = pos[h] /\ pc[h] = "for_alert"
    \/ a = pos[h] /\ pc[h] = "done" /\ resp[h] = Processed

\* the alert's team label is missing, empty or no key of the directory
FallsBack(alert) == Falsy(alert.team) \/ alert.team \notin DOMAIN contacts

\* the body is JSON and every element of 'alerts' is an object
WellFormed(h) ==
    data[h].json /\ \A a \in DOMAIN alerts(h) : alerts(h)[a].kind = "object"

FailedSend(h) == \E n \in DOMAIN log[h] : log[h][n].op = "send_sms" /\ ~log[h][n].ok
FailedExchange(h) == \E n \in DOMAIN log[h] : log[h][n].op = "token_post" /\ ~log[h][n].ok

\* ---------------------------------------------------------------- claims

\* C1: for every alert whose team label is a key of the directory and whose
\* dispatch ran to its end (token obtained, every gateway call answered 200),
\* each member of that team got exactly one send_sms call for the alert and
\* no phone outside that team's list got one.
C1_KnownTeamEachMemberOnce ==
    \A h \in Procs : \A a \in DOMAIN alerts(h) :
        LET alert == alerts(h)[a] IN
        (Completed(h, a) /\ ~FallsBack(alert)) =>
            LET members == contacts[alert.team] IN
            /\ \A j \in DOMAIN members : Count(SentPhones(h, a), members[j].phone) = 1
            /\ \A j \in DOMAIN SentPhones(h, a) :
                   \E i \in DOMAIN members : members[i].phone = SentPhones(h, a)[j]

\* C2: for every alert whose team label is missing, empty or unknown and
\* whose dispatch ran to its end, each member of the default team 'devops'
\* got exactly one send_sms call for the alert.
C2_FallbackEachMemberOnce ==
    \A h \in Procs : \A a \in DOMAIN alerts(h) :
        LET alert == alerts(h)[a] IN
        (Completed(h, a) /\ FallsBack(alert) /\ "devops" \in DOMAIN contacts) =>
            \A j \in DOMAIN contacts["devops"] :
                Count(SentPhones(h, a), contacts["devops"][j].phone) = 1

\* C3: when the gateway rejected a send of alert a, the finished request has
\* still attempted every member of a's resolved team, has started every
\* later alert of the batch, and was not failed by the rejection.
C3_DeliveryFailureIsolated ==
    \A h \in Procs : \A n \in DOMAIN log[h] :
        LET e == log[h][n] IN
        (pc[h] = "done" /\ WellFormed(h) /\ e.op = "send_sms" /\ ~e.ok) =>
            LET alert == alerts(h)[e.alert]
                rt == IF FallsBack(alert) THEN "devops" ELSE alert.team
            IN  /\ \A j \in DOMAIN contacts[rt] :
                       Count(SentPhones(h, e.alert), contacts[rt][j].phone) >= 1
                /\ \A b \in (e.alert + 1) .. Len(alerts(h)) :
                       Events(h, b, "cache_get") # << >>
                /\ resp[h].status # HTTP_ERROR

\* C4: every send_sms call of an alert comes after a successful token
\* acquisition (a cache hit or an accepted exchange) for that same alert, and
\* an alert whose exchange was rejected has no send_sms call at all.
C4_NoSendWithoutToken ==
    \A h \in Procs : \A n \in DOMAIN log[h] :
        log[h][n].op = "send_sms" =>
            /\ \E m \in 1 .. (n - 1) :
                   /\ log[h][m].alert = log[h][n].alert
                   /\ log[h][m].op \in {"cache_get", "token_post"}
                   /\ log[h][m].ok
            /\ \A m \in DOMAIN log[h] :
                   ~(/\ log[h][m].alert = log[h][n].alert
                     /\ log[h][m].op = "token_post"
                     /\ ~log[h][m].ok)

\* C4 witness: a request whose first alert was sent out and whose second
\* alert's exchange was rejected, leaving that alert without any send.
C4_Witness ==
    \E h \in Procs :
        /\ pc[h] = "done"
        /\ Events(h, 1, "send_sms") # << >>
        /\ \E n \in DOMAIN log[h] :
               log[h][n].op = "token_post" /\ log[h][n].alert = 2 /\ ~log[h][n].ok
        /\ Events(h, 2, "send_sms") = << >>

\* C5: when the exchange of one alert was rejected, the finished request has
\* still started every later alert of the batch.
C5_AuthFailureIsolated ==
    \A h \in Procs : \A n \in DOMAIN log[h] :
        LET e == log[h][n] IN
        (pc[h] = "done" /\ WellFormed(h) /\ e.op = "token_post" /\ ~e.ok) =>
            \A b \in (e.alert + 1) .. Len(alerts(h)) :
                Events(h, b, "cache_get") # << >>

\* C6: a dispatch whose cache read found a token makes no exchange and goes
\* on with exactly the token it read; so any two dispatches of which the
\* later one found the cached token make at most one exchange between them.
C6_TokenReuse ==
    /\ \A d1 \in Dispatches : \A d2 \in Dispatches :
           (d1 # d2 /\ Hit(d2)) => NPosts(d1[1], d1[2]) + NPosts(d2[1], d2[2]) <= 1
    /\ \A h \in Procs : \A n \in DOMAIN log[h] :
           LET e == log[h][n] IN
           (e.op = "cache_get" /\ e.ok) =>
               /\ NPosts(h, e.alert) = 0
               /\ e.token # NoToken
               /\ (e.alert = pos[h] /\ pc[h] \in {"resolve", "for_member", "tail_send"})
                      => oidc_token[h] = e.token
               /\ \A m \in DOMAIN log[h] :
                      (log[h][m].op = "send_sms" /\ log[h][m].alert = e.alert)
                          => log[h][m].token = e.token

\* C6 witness: one dispatch made the exchange, another one read that very
\* token from the cache and sent with it.
C6_Witness ==
    \E d1 \in Dispatches : \E d2 \in Dispatches :
        /\ d1 # d2
        /\ NPosts(d1[1], d1[2]) = 1
        /\ Hit(d2)
        /\ \E s \in { log[d2[1]][n] : n \in DOMAIN log[d2[1]] } :
               /\ s.op = "send_sms" /\ s.alert = d2[2]
               /\ Events(d1[1], d1[2], "token_post")[1].token = s.token

\* C7: a dispatch whose cache read found no entry makes exactly one exchange,
\* and every send_sms call of that dispatch comes after that exchange.
C7_TokenExpiry ==
    \A d \in Dispatches :
        LET h == d[1]
            a == d[2]
        IN  (Miss(d) /\ (a < pos[h] \/ pc[h] # "post")) =>
                /\ NPosts(h, a) = 1
                /\ \A n \in DOMAIN log[h] :
                       (log[h][n].op = "send_sms" /\ log[h][n].alert = a) =>
                           \E m \in 1 .. (n - 1) :
                               /\ log[h][m].op = "token_post"
                               /\ log[h][m].alert = a
                               /\ log[h][m].ok

\* C7 witness: the token stored by the first alert's dispatch has expired
\* when the second alert is dispatched; the second dispatch makes its own
\* exchange and then sends.
C7_Witness ==
    \E h \in Procs :
        /\ NPosts(h, 1) = 1
        /\ Events(h, 1, "token_post")[1].ok
        /\ Miss(<< h, 2 >>)
        /\ NPosts(h, 2) = 1
        /\ Events(h, 2, "send_sms") # << >>

\* C8: with no 'devops' entry in the directory, a request whose alerts fall
\* back to the default team ends normally, with no send for those alerts.
C8_MissingDefaultTeamNoCrash ==
    \A h \in Procs :
        (/\ pc[h] = "done"
         /\ "devops" \notin DOMAIN contacts
         /\ WellFormed(h)
         /\ ~FailedExchange(h)
         /\ \E a \in DOMAIN alerts(h) : FallsBack(alerts(h)[a])) =>
            /\ resp[h] = Processed
            /\ \A a \in DOMAIN alerts(h) :
                   FallsBack(alerts(h)[a]) => Events(h, a, "send_sms") = << >>

\* C9: a well-formed batch ends with the response "Alerts processed", also
\* when the gateway rejected one of its sends.
C9_AlwaysAlertsProcessed ==
    \A h \in Procs :
        (/\ pc[h] = "done"
         /\ WellFormed(h)
         /\ ~FailedExchange(h)
         /\ "devops" \in DOMAIN contacts
         /\ contacts["devops"] # << >>) =>
            resp[h] = Processed

\* C10: a request whose body does not have the expected shape is answered
\* with a client error (4xx) and has made no cache read, exchange or send.
C10_MalformedAllOrNothing ==
    \A h \in Procs :
        (pc[h] = "done" /\ ~WellFormed(h)) =>
            /\ resp[h].status \in 400 .. 499
            /\ log[h] = << >>

\* --------------------------------------------- the failing runs, as states
\* C1 failing run: an alert labelled with the known team 'sre' was dispatched
\* to its end, the request answered "Alerts processed", and nothing was sent.
C1_FailingRun ==
    \E h \in Procs :
        /\ pc[h] = "done" /\ resp[h] = Processed
        /\ Len(alerts(h)) = 1 /\ alerts(h)[1].team = "sre"
        /\ "sre" \in DOMAIN contacts
        /\ Events(h, 1, "token_post") # << >>
        /\ SentPhones(h, 1) = << >>

\* C2 failing run: the fallback alert was sent to the last member of
\* 'devops' twice.
C2_FailingRun ==
    \E h \in Procs :
        /\ Completed(h, 1) /\ alerts(h)[1].team = None
        /\ SentPhones(h, 1) = << "+1000", "+2000", "+2000" >>

\* C3 failing run: the gateway rejected the send to the first of two members;
\* the second member and the second alert were never attempted and the
\* request failed.
C3_FailingRun ==
    \E h \in Procs :
        /\ pc[h] = "done" /\ resp[h] = HTTPException("Failed to send SMS")
        /\ Len(alerts(h)) = 2 /\ WellFormed(h)
        /\ SentPhones(h, 1) = << "+1000" >>
        /\ Len(contacts["devops"]) = 2
        /\ \A n \in DOMAIN log[h] : log[h][n].alert = 1

\* C5 failing run: the exchange of the first of two alerts was rejected and
\* the request ended there; the second alert was never started.
C5_FailingRun ==
    \E h \in Procs :
        /\ pc[h] = "done" /\ resp[h] = HTTPException("Failed to obtain OIDC token")
        /\ Len(alerts(h)) = 2 /\ WellFormed(h)
        /\ pos[h] = 1
        /\ \A n \in DOMAIN log[h] : log[h][n].alert = 1

\* C8 failing run: no 'devops' entry, an alert without team label, token
\* obtained: the request ends with an internal server error.
C8_FailingRun ==
    \E h \in Procs :
        /\ pc[h] = "done" /\ resp[h] = InternalServerError
        /\ "devops" \notin DOMAIN contacts
        /\ Len(alerts(h)) = 1 /\ alerts(h)[1].kind = "object" /\ alerts(h)[1].team = None
        /\ Events(h, 1, "token_post") # << >>

\* C9 failing run: a well-formed batch whose last send was rejected is
\* answered with status 500.
C9_FailingRun ==
    \E h \in Procs :
        /\ pc[h] = "done" /\ WellFormed(h) /\ FailedSend(h)
        /\ SentPhones(h, 1) = << "+1000", "+2000", "+2000" >>
        /\ resp[h].status = HTTP_ERROR

\* C10 failing run: the second element of 'alerts' is not an object; the
\* first alert has had its token acquired and its messages sent before the
\* request fails with status 500.
C10_FailingRun ==
    \E h \in Procs :
        /\ pc[h] = "done" /\ resp[h] = InternalServerError
        /\ Len(alerts(h)) = 2
        /\ alerts(h)[1].kind = "object" /\ alerts(h)[2].kind = "string"
        /\ Events(h, 1, "cache_get") # << >>
        /\ Events(h, 1, "send_sms") # << >>

\* -------------------------------------------------------- claims C11..C20

\* C11: every request a worker has received is eventually answered, also
\* when the identity provider, the gateway or Redis never answers a call.
C11_EveryRequestAnswered ==
    \A h \in Procs : (pc[h] # "idle") ~> (pc[h] = "done")

\* C11 failing run: the identity provider never answers the exchange of the
\* first alert; the worker is still inside requests.post and the request
\* has no response.
C11_FailingRun ==
    \E h \in Procs :
        /\ pc[h] = "blocked"
        /\ resp[h] = NoResponse
        /\ Miss(<< h, 1 >>)
        /\ NPosts(h, 1) = 0

\* C12: a rejected send_sms call is never followed by another send to the
\* same phone for the same alert, and a rejected exchange is never followed
\* by another exchange for the same alert.
C12_NothingRetried ==
    \A h \in Procs : \A n \in DOMAIN log[h] : \A m \in DOMAIN log[h] :
        LET e == log[h][n]
            f == log[h][m]
        IN  (m > n /\ ~e.ok /\ f.alert = e.alert /\ f.op = e.op) =>
                /\ e.op # "token_post"
                /\ e.op = "send_sms" => f.phone # e.phone

\* C12 witness: one request ended on a rejected exchange, another on a
\* rejected send to the first of two members.
C12_Witness ==
    \E h1 \in Procs : \E h2 \in Procs :
        /\ pc[h1] = "done" /\ FailedExchange(h1)
        /\ pc[h2] = "done" /\ FailedSend(h2)
        /\ SentPhones(h2, 1) = << "+1000" >>

\* C13: no step changes the contact directory, and two alerts that were
\* both dispatched to the default team were sent to the same phones in the
\* same order.
C13_DirectoryReadOnly ==
    /\ [][contacts' = contacts]_vars
    /\ [](\A d1 \in Dispatches : \A d2 \in Dispatches :
            (/\ Completed(d1[1], d1[2]) /\ FallsBack(alerts(d1[1])[d1[2]])
             /\ Completed(d2[1], d2[2]) /\ FallsBack(alerts(d2[1])[d2[2]]))
                => SentPhones(d1[1], d1[2]) = SentPhones(d2[1], d2[2]))

\* C13 witness: one request has dispatched two alerts to the default team,
\* resolving 'devops' twice.
C13_Witness ==
    \E h \in Procs :
        /\ Completed(h, 1) /\ FallsBack(alerts(h)[1])
        /\ Completed(h, 2) /\ FallsBack(alerts(h)[2])
        /\ SentPhones(h, 1) # << >>
        /\ SentPhones(h, 2) = SentPhones(h, 1)

\* C14: under every interleaving of workers that miss the cache, (1) a cache
\* entry always holds one token that some worker's accepted exchange issued,
\* (2) a worker whose exchange was accepted goes on and sends with the token
\* of its own exchange, (3) each worker's cache write leaves the entry
\* holding exactly that worker's token with the full validity window, and
\* (4) the entry disappears only by expiry.
C14_ConcurrentMissesValid ==
    /\ [](cache # NoEntry =>
            \E h \in Procs : \E n \in DOMAIN log[h] :
                /\ log[h][n].op = "token_post" /\ log[h][n].ok
                /\ log[h][n].token = cache.token)
    /\ [](\A h \in Procs : \A n \in DOMAIN log[h] :
            LET e == log[h][n] IN
            (e.op = "token_post" /\ e.ok) =>
                /\ e.token \in 1 .. issued
                /\ (e.alert = pos[h] /\ pc[h] \in {"resolve", "for_member", "tail_send"})
                       => oidc_token[h] = e.token
                /\ \A m \in DOMAIN log[h] :
                       (log[h][m].op = "send_sms" /\ log[h][m].alert = e.alert)
                           => log[h][m].token = e.token)
    /\ [][\A h \in Procs :
            (pc[h] = "set" /\ pc'[h] # "set") =>
                cache' = [token |-> token[h], ttl |-> expires_in]]_vars
    /\ [][(cache # NoEntry /\ cache' = NoEntry) => cache.ttl <= TickSeconds]_vars

\* C14 witness: two workers both missed the cache on their first alert, both
\* had their exchange accepted (two different tokens), both have written the
\* cache, and the entry holds one of the two tokens.
C14_Witness ==
    \E h1 \in Procs : \E h2 \in Procs :
        /\ h1 # h2
        /\ Miss(<< h1, 1 >>) /\ Miss(<< h2, 1 >>)
        /\ NPosts(h1, 1) = 1 /\ NPosts(h2, 1) = 1
        /\ Events(h1, 1, "token_post")[1].ok /\ Events(h2, 1, "token_post")[1].ok
        /\ pc[h1] \notin {"post", "set"} /\ pc[h2] \notin {"post", "set"}
        /\ cache # NoEntry
        /\ cache.token = Events(h1, 1, "token_post")[1].token
        /\ Events(h1, 1, "token_post")[1].token < Events(h2, 1, "token_post")[1].token

\* position of phone p in a member list
IndexOf(members, p) == CHOOSE i \in DOMAIN members : members[i].phone = p

\* C15: in a worker's call log the calls of alert i all come before the calls
\* of alert i+1, and the sends of one alert go through the resolved team's
\* member list in list order (never back to an earlier member).
C15_ArrivalOrder ==
    \A h \in Procs :
        /\ \A n \in DOMAIN log[h] : \A m \in DOMAIN log[h] :
               n < m => log[h][n].alert <= log[h][m].alert
        /\ \A a \in 1 .. pos[h] :
               LET alert == alerts(h)[a]
                   rt == IF FallsBack(alert) THEN "devops" ELSE alert.team
                   sent == SentPhones(h, a)
               IN  sent # << >> =>
                       /\ \A j \in DOMAIN sent :
                              \E i \in DOMAIN contacts[rt] : contacts[rt][i].phone = sent[j]
                       /\ sent[1] = contacts[rt][1].phone
                       /\ \A i \in DOMAIN sent : \A j \in DOMAIN sent :
                              i < j => IndexOf(contacts[rt], sent[i])
                                           <= IndexOf(contacts[rt], sent[j])

\* C15 witness: a request with two alerts, each sent to +1000, then +2000
\* (and +2000 again), the first alert's calls all logged before the second's.
C15_Witness ==
    \E h \in Procs :
        /\ pc[h] = "done" /\ resp[h] = Processed /\ pos[h] = 2
        /\ SentPhones(h, 1) = << "+1000", "+2000", "+2000" >>
        /\ SentPhones(h, 2) = << "+1000", "+2000", "+2000" >>
        /\ \A n \in 1 .. 4 : log[h][n].alert = 1

\* C16: a get_oidc_token call that finds a token in the cache returns that
\* token and goes straight on to resolving the team: it makes no exchange
\* and leaves the entry's value and remaining time to live as they were.
C16_FastPathFrame ==
    [][\A h \in Procs :
        (pc[h] = "get_oidc_token" /\ cache # NoEntry /\ pc'[h] # pc[h]) =>
            /\ pc'[h] = "resolve"
            /\ oidc_token'[h] = cache.token
            /\ cache' = cache
            /\ issued' = issued
            /\ log'[h] = Append(log[h], Event("cache_get", pos[h], None, None,
                                              cache.token, TRUE))]_vars

\* C16 witness: a worker has just taken the fast path on an entry that had
\* already used up part of its validity window.
C16_Witness ==
    \E h \in Procs :
        /\ pc[h] = "resolve"
        /\ Hit(<< h, pos[h] >>)
        /\ cache # NoEntry
        /\ cache.ttl < expires_in
        /\ oidc_token[h] = cache.token

\* C17: every send_sms call made for an alert carries the text "Alert: "
\* followed by that alert's own description, or "Alert: No description
\* provided" when the alert has no description.
C17_MessageOfOwnAlert ==
    \A h \in Procs : \A n \in DOMAIN log[h] :
        LET e == log[h][n] IN
        e.op = "send_sms" =>
            LET alert == alerts(h)[e.alert] IN
            /\ alert.description = None => e.body = "Alert: No description provided"
            /\ alert.description = "cpu high" => e.body = "Alert: cpu high"
            /\ alert.description = "disk full" => e.body = "Alert: disk full"
            /\ alert.description \in {None, "cpu high", "disk full"}

\* C17 witness: one request sent its first alert with the placeholder text
\* and its second alert with that alert's own description.
C17_Witness ==
    \E h \in Procs :
        /\ pos[h] = 2
        /\ \E n \in DOMAIN log[h] :
               /\ log[h][n].op = "send_sms" /\ log[h][n].alert = 1
               /\ log[h][n].body = "Alert: No description provided"
        /\ \E n \in DOMAIN log[h] :
               /\ log[h][n].op = "send_sms" /\ log[h][n].alert = 2
               /\ log[h][n].body = "Alert: cpu high"

\* the token get_oidc_token returned for alert a of worker h: the cached one
\* on a hit, the one just issued on an accepted exchange
Acquired(h, a) ==
    LET got == SelectSeq(log[h], LAMBDA e :
                   /\ e.alert = a /\ e.ok
                   /\ e.op \in {"cache_get", "token_post"})
    IN  IF got = << >> THEN NoToken ELSE got[1].token

\* C18: each alert has exactly one cache read and at most one exchange
\* (get_oidc_token is called once), made before any send of the alert, and
\* every send of the alert carries the token that call returned, whatever
\* the cache holds by then.
C18_TokenAcquiredOncePerAlert ==
    \A d \in Dispatches :
        LET h == d[1]
            a == d[2]
        IN  /\ Len(Events(h, a, "cache_get")) <= 1
            /\ NPosts(h, a) <= 1
            /\ (alerts(h)[a].kind = "object" /\ (a < pos[h] \/ pc[h] # "get_oidc_token"))
                   => Len(Events(h, a, "cache_get")) = 1
            /\ \A n \in DOMAIN log[h] :
                   (log[h][n].op = "send_sms" /\ log[h][n].alert = a) =>
                       /\ log[h][n].token = Acquired(h, a)
                       /\ log[h][n].token # NoToken
                       /\ \E m \in 1 .. (n - 1) :
                              log[h][m].op = "cache_get" /\ log[h][m].alert = a

\* C18 witness: a worker in the middle of an alert's sends, two sends made
\* with its token and one still to come, while the cache entry has been
\* overwritten with another worker's token.
C18_Witness ==
    \E h \in Procs :
        /\ pc[h] = "tail_send"
        /\ Len(Events(h, pos[h], "send_sms")) = 2
        /\ cache # NoEntry
        /\ cache.token # oidc_token[h]
        /\ oidc_token[h] = Acquired(h, pos[h])

\* C19: the exchange step never writes the cache, so a rejected exchange
\* leaves the entry exactly as it was; and whenever the cache holds an entry
\* its value is a token the identity provider has issued.
C19_FailedExchangeKeepsCache ==
    /\ [][\A h \in Procs : (pc[h] = "post" /\ pc'[h] # "post") => cache' = cache]_vars
    /\ [](cache # NoEntry => cache.token \in 1 .. issued)

\* C19 witness: a request has ended on a rejected exchange, no token was
\* ever issued, and the key 'oidc_token' is still absent.
C19_Witness ==
    \E h \in Procs :
        /\ pc[h] = "done"
        /\ resp[h] = HTTPException("Failed to obtain OIDC token")
        /\ FailedExchange(h)
        /\ issued = 0
        /\ cache = NoEntry

\* C20: with 'devops' present and empty, a request with an alert that falls
\* back to it makes no send for that alert and ends with "Alerts processed".
C20_EmptyDefaultTeamCompletes ==
    \A h \in Procs :
        (/\ pc[h] = "done"
         /\ "devops" \in DOMAIN contacts
         /\ contacts["devops"] = << >>
         /\ WellFormed(h)
         /\ ~FailedExchange(h)
         /\ \E a \in DOMAIN alerts(h) : FallsBack(alerts(h)[a])) =>
            /\ resp[h] = Processed
            /\ \A a \in DOMAIN alerts(h) :
                   FallsBack(alerts(h)[a]) => SentPhones(h, a) = << >>

\* C20 failing run: 'devops' is empty; the first alert (team 'sre') went
\* through, the second alert fell back to 'devops', the loop assigned no
\* 'member', and the send after the loop ended the request with status 500.
C20_FailingRun ==
    \E h \in Procs :
        /\ pc[h] = "done" /\ resp[h] = InternalServerError
        /\ "devops" \in DOMAIN contacts
        /\ contacts["devops"] = << >>
        /\ Len(alerts(h)) = 2 /\ WellFormed(h)
        /\ alerts(h)[1].team = "sre" /\ FallsBack(alerts(h)[2])
        /\ pos[h] = 2
        /\ member[h] = UnboundMember
        /\ SentPhones(h, 2) = << >>

====
